---- MODULE Spec2Model ----
(***************************************************************************)
(* Model of the remote-execution harness of volt/sdk/decorators.py: the    *)
(* wrapper built by machine(...)(func), one invocation from the listing of *)
(* executors to the end of its two finally blocks.  The SDK primitives     *)
(* (ls, default_docker_template, up, wait_ready, upload, exec, download,   *)
(* down) and the local file system are collaborators: every outcome they   *)
(* can produce (a value, a failure result, a raised error) is a choice.    *)
(***************************************************************************)
EXTENDS Integers, Sequences, FiniteSets, TLC

(***************************************************************************)
(* Bounds of the model.                                                    *)
(***************************************************************************)
MaxListing == 2
MaxDepth == 2
MaxAttempts == 3
MaxClock == 1
MaxDraws == 2

(***************************************************************************)
(* The state of one invocation of wrapper.                                 *)
(***************************************************************************)
VARIABLES
  pc,                 \* position in wrapper
  machine, template_id, cleanup, requirements,   \* arguments of machine(...)
  executors,          \* sdk.ls(): the machine names, in listing order
  matching_executor,  \* index in executors, 0 for None
  template,           \* sdk.default_docker_template(...)
  fleet,              \* the pod as the fleet holds it
  pod_info,           \* "None" or "pod"
  arg, beh,           \* the call argument; what the function body did
  runner_file,        \* local script file: "none", "exists", "deleted"
  venv_path,          \* "unset" until line 122 binds it
  install_result,     \* result of the pip install command
  exec_result,        \* result of the run command
  remote,             \* /tmp/result.json on the pod and its write count
  result_file,        \* local copy of the artifact
  download_result,    \* how the retrieval went: "failed", "unparsable", "parsed"
  result_data,        \* parsed artifact, PyNoneData for None
  calls,              \* the collaborator calls issued so far, in order
  pending,            \* the return value or the exception in flight
  primary,            \* what the try body produced when it was left
  outcome,            \* what the caller receives
  td_raised,          \* teardown steps that raised
  inv, pods, envs, clock,   \* two invocations side by side and the platform
  retry,              \* one call of the wrapper of with_retry
  backup              \* one call of SetBackupAction.execute

wrapper_vars ==
  <<pc, machine, template_id, cleanup, requirements, executors,
    matching_executor, template, fleet, pod_info, arg, beh, runner_file,
    venv_path, install_result, exec_result, remote, result_file,
    download_result, result_data, calls, pending, primary, outcome,
    td_raised>>

others == <<inv, pods, envs, clock, retry, backup>>

vars == <<wrapper_vars, others>>

params == <<machine, template_id, cleanup, requirements>>

retrieval == <<result_file, download_result>>

(***************************************************************************)
(* Python values.  Every value is a record of one shape: a type tag t, the *)
(* text a of an atom, and the items of a container (a dict holds its items *)
(* as key, value, key, value, ...).                                        *)
(***************************************************************************)
Atom(t, a) == [t |-> t, a |-> a, items |-> <<>>]

Cont(t, items) == [t |-> t, a |-> "", items |-> items]

Absent == Atom("absent", "")

PyNone == Atom("NoneType", "None")

PyAtoms == {PyNone, Atom("bool", "True"), Atom("int", "1"), Atom("str", "a")}

KeyAtoms == {Atom("int", "1"), Atom("str", "a")}

RECURSIVE PyValues(_)
PyValues(d) ==
  IF d = 0 THEN PyAtoms
  ELSE LET S == PyValues(d - 1) IN
       PyAtoms
       \cup {Cont("list", <<>>), Cont("tuple", <<>>), Cont("dict", <<>>)}
       \cup {Cont("list", <<x>>) : x \in S}
       \cup {Cont("tuple", <<x>>) : x \in S}
       \cup {Cont("dict", <<k, x>>) : k \in KeyAtoms, x \in S}
       \cup {Cont("set", <<x>>) : x \in PyAtoms}

(***************************************************************************)
(* json.dump and json.load of the standard library, as the generated       *)
(* script (line 99) and the wrapper (line 155) use them.                   *)
(***************************************************************************)
JsonTypeError == Atom("TypeError", "not JSON serializable")

\* json.dump with every number written as a string
JsonAtomIntAsString(v) ==
  CASE v.t = "NoneType" -> Atom("null", "null")
    [] v.t = "bool" -> Atom("bool", IF v.a = "True" THEN "true" ELSE "false")
    [] v.t = "int" -> Atom("string", v.a)
    [] v.t = "str" -> Atom("string", v.a)
    [] OTHER -> Atom("TypeError", "not JSON serializable")

\* the text json.dump writes for an atom
JsonAtom(v) ==
  CASE v.t = "NoneType" -> Atom("null", "null")
    [] v.t = "bool" -> Atom("bool", IF v.a = "True" THEN "true" ELSE "false")
    [] v.t = "int" -> Atom("number", v.a)
    [] v.t = "str" -> Atom("string", v.a)
    [] OTHER -> JsonTypeError

\* a dict key is written as a JSON string: str(key) for int, "true"/"false"
\* for bool, "null" for None; any other key type raises TypeError
JsonKey(k) ==
  CASE k.t = "str" -> Atom("string", k.a)
    [] k.t = "int" -> Atom("string", k.a)
    [] k.t = "bool" -> Atom("string", IF k.a = "True" THEN "true" ELSE "false")
    [] k.t = "NoneType" -> Atom("string", "null")
    [] OTHER -> JsonTypeError

RECURSIVE JsonDump(_)
JsonDump(v) ==
  IF v.t \in {"list", "tuple"}
  THEN LET js == [i \in 1..Len(v.items) |-> JsonDump(v.items[i])] IN
       IF \E i \in 1..Len(js) : js[i] = JsonTypeError
       THEN JsonTypeError
       ELSE Cont("array", js)
  ELSE IF v.t = "dict"
  THEN LET js == [i \in 1..Len(v.items) |->
                    IF i % 2 = 1 THEN JsonKey(v.items[i])
                    ELSE JsonDump(v.items[i])] IN
       IF \E i \in 1..Len(js) : js[i] = JsonTypeError
       THEN JsonTypeError
       ELSE Cont("object", js)
  ELSE JsonAtom(v)

RECURSIVE JsonLoad(_)
JsonLoad(j) ==
  CASE j.t = "null" -> PyNone
    [] j.t = "bool" -> Atom("bool", IF j.a = "true" THEN "True" ELSE "False")
    [] j.t = "number" -> Atom("int", j.a)
    [] j.t = "string" -> Atom("str", j.a)
    [] j.t = "array" ->
         Cont("list", [i \in 1..Len(j.items) |-> JsonLoad(j.items[i])])
    [] j.t = "object" ->
         Cont("dict", [i \in 1..Len(j.items) |-> JsonLoad(j.items[i])])
    [] OTHER -> Absent

(***************************************************************************)
(* repr(args) embedded in the script text (lines 91-92) and evaluated by   *)
(* the remote interpreter.  The text of a literal evaluates to an equal    *)
(* value; the text of any other object (<X object at 0x..>) is not an      *)
(* expression and the script does not compile.                             *)
(***************************************************************************)
PyObject == Atom("object", "<object>")

RECURSIVE HasObject(_)
HasObject(v) ==
  \/ v.t = "object"
  \/ \E i \in 1..Len(v.items) : HasObject(v.items[i])

ReprText(v) ==
  IF HasObject(v) THEN Atom("text", "<object>") ELSE Cont("text", <<v>>)

EvalText(s) == IF s.items = <<>> THEN Absent ELSE s.items[1]

(***************************************************************************)
(* The artifact file /tmp/result.json as a JSON document.  Optional string *)
(* fields are sequences of length 0 (key absent) or 1.                     *)
(***************************************************************************)
NoDoc ==
  [kind |-> "none", falsy |-> TRUE, success |-> "absent", result |-> Absent,
   error |-> <<>>, traceback |-> <<>>]

SuccessDoc(j) ==
  [kind |-> "object", falsy |-> FALSE, success |-> "true", result |-> j,
   error |-> <<>>, traceback |-> <<>>]

FailureDoc(e, tb) ==
  [kind |-> "object", falsy |-> FALSE, success |-> "false", result |-> Absent,
   error |-> <<e>>, traceback |-> <<tb>>]

(***************************************************************************)
(* The generated runner script (lines 81-110) run by the remote            *)
(* interpreter.  b is what the function body does with its argument v:     *)
(* "return" (it returns its argument), "return_global" (it reads a name of *)
(* its module, an import or a global, and returns its argument), "raise"   *)
(* (it raises an Exception with text "boom"), "exit0" / "exit1" (it calls  *)
(* sys.exit), "def_raise" (its def statement reads a name of its module,   *)
(* a default value for instance, and its body returns its argument).       *)
(* The result is the exit status, the artifact left on the     *)
(* resource and the number of times the artifact was opened for writing.   *)
(***************************************************************************)
FuncBehaviours ==
  {"return", "return_global", "raise", "exit0", "exit1", "def_raise"}

\* the value of calling the function in its own module, Absent when the
\* call returns none
DirectCall(b, v) ==
  IF b \in {"return", "return_global", "def_raise"} THEN v ELSE Absent

runner_script(b, v) ==
  LET text == ReprText(v) IN
  IF text.items = <<>>
  THEN \* SyntaxError when the script is compiled: nothing runs
       [exit |-> 1, doc |-> NoDoc, writes |-> 0]
  ELSE
    CASE b = "return" ->
           LET result == DirectCall(b, EvalText(text))
               j == JsonDump(result) IN
           IF j = JsonTypeError
           THEN \* json.dump raised inside the with block of line 98: the
                \* except branch reopens the file and writes the failure
                [exit |-> 1,
                 doc |-> FailureDoc(JsonTypeError.a, "Traceback"),
                 writes |-> 2]
           ELSE [exit |-> 0, doc |-> SuccessDoc(j), writes |-> 1]
      [] b = "return_global" ->
           \* the script holds the function's source alone (line 87): the
           \* name is not defined there and the call raises NameError
           [exit |-> 1,
            doc |-> FailureDoc("name is not defined", "Traceback"),
            writes |-> 1]
      [] b = "raise" ->
           [exit |-> 1, doc |-> FailureDoc("boom", "Traceback"), writes |-> 1]
      [] b = "exit0" ->
           \* SystemExit is not an Exception: line 101 does not catch it
           [exit |-> 0, doc |-> NoDoc, writes |-> 0]
      [] b = "def_raise" ->
           \* the function's source stands before the try (line 87): the
           \* NameError of the def statement is caught by nothing
           [exit |-> 1, doc |-> NoDoc, writes |-> 0]
      [] OTHER ->
           [exit |-> 1, doc |-> NoDoc, writes |-> 0]

(***************************************************************************)
(* json.load of the downloaded copy (line 155): the document as the Python *)
(* object result_data.                                                     *)
(***************************************************************************)
PyNoneData == NoDoc

LoadDoc(doc) ==
  IF doc.kind = "none" THEN PyNoneData
  ELSE [doc EXCEPT !.result =
          IF doc.result = Absent THEN Absent ELSE JsonLoad(doc.result)]

(***************************************************************************)
(* Outcomes of the wrapper: a returned value or a raised error with its    *)
(* message (the parts of the formatted string, in order).                  *)
(***************************************************************************)
NoOutcome == [kind |-> "none", type |-> "", val |-> Absent, msg |-> <<>>]

Return(v) == [kind |-> "return", type |-> "", val |-> v, msg |-> <<>>]

Raise(type, msg) == [kind |-> "raise", type |-> type, val |-> Absent, msg |-> msg]

UnknownRemoteError == "Unknown remote error"

\* the artifact's message with the run's stderr taking its place when there
\* is one
ArtifactMessagePreferStderr(data) ==
  IF exec_result.stderr # "" THEN <<exec_result.stderr>>
  ELSE IF data.error = <<>> THEN <<UnknownRemoteError>>
  ELSE <<data.error[1]>>

\* lines 167-170
ArtifactMessage(data) ==
  LET err_msg == IF data.error = <<>> THEN UnknownRemoteError
                 ELSE data.error[1]
      tb == data.traceback IN
  IF tb # <<>> /\ tb[1] # ""
  THEN <<err_msg, "\n\nTraceback:\n", tb[1]>>
  ELSE <<err_msg>>

\* the streams tried in the other order
StreamMessageStdoutFirst(result) ==
  IF result.stdout # "" THEN <<result.stdout>>
  ELSE IF result.stderr # "" THEN <<result.stderr>>
  ELSE <<UnknownRemoteError>>

\* line 173
StreamMessage(result) ==
  IF result.stderr # "" THEN <<result.stderr>>
  ELSE IF result.stdout # "" THEN <<result.stdout>>
  ELSE <<UnknownRemoteError>>

RemoteFailed(msg) == Raise("LiumError", <<"Remote execution failed:\n">> \o msg)

\* a classification that looks at the status of the run before the artifact
ClassifyExitStatusFirst(data, result) ==
  IF ~result.success \/ data.falsy THEN RemoteFailed(StreamMessage(result))
  ELSE IF data.kind # "object" THEN Raise("AttributeError", <<"get">>)
  ELSE IF data.success = "true"
  THEN IF data.result = Absent THEN Raise("KeyError", <<"result">>)
       ELSE Return(data.result)
  ELSE IF data.success = "false" THEN RemoteFailed(ArtifactMessage(data))
  ELSE RemoteFailed(StreamMessage(result))

\* lines 162-174: what the classification returns or raises
Classify(data, result) ==
  IF data.falsy
  THEN \* line 173: result_data is None (or another false value)
       RemoteFailed(StreamMessage(result))
  ELSE IF data.kind # "object"
  THEN \* line 162: a list, string or number has no get
       Raise("AttributeError", <<"get">>)
  ELSE IF data.success = "true"
  THEN \* line 163
       IF data.result = Absent THEN Raise("KeyError", <<"result">>)
       ELSE Return(data.result)
  ELSE IF data.success = "false"
  THEN \* lines 166-171
       RemoteFailed(ArtifactMessage(data))
  ELSE \* no success key: get('success', True) is True, line 173 is reached
       RemoteFailed(StreamMessage(result))

(***************************************************************************)
(* Strings that are searched are sequences of characters.                  *)
(***************************************************************************)
LowerChar(c) ==
  CASE c = "A" -> "a"
    [] c = "H" -> "h"
    [] OTHER -> c

Lower(s) == [i \in 1..Len(s) |-> LowerChar(s[i])]

\* Python's  s in t  on strings
IsSubstring(s, t) ==
  \E i \in 0..(Len(t) - Len(s)) : SubSeq(t, i + 1, i + Len(s)) = s

\* line 47
Matches(m, machine_name) == IsSubstring(Lower(m), Lower(machine_name))

\* lines 45-49: the loop with its break; 0 stands for None
RECURSIVE ScanExecutors(_, _, _)
ScanExecutors(m, listing, i) ==
  IF i > Len(listing) THEN 0
  ELSE IF Matches(m, listing[i]) THEN i
  ELSE ScanExecutors(m, listing, i + 1)

\* a selection that falls back on the first executor listed
FirstMatchOrFirst(m, listing) ==
  IF ScanExecutors(m, listing, 1) = 0 /\ Len(listing) > 0 THEN 1
  ELSE ScanExecutors(m, listing, 1)

\* the loop without its break: the last match is kept
RECURSIVE ScanToEnd(_, _, _, _)
ScanToEnd(m, listing, i, found) ==
  IF i > Len(listing) THEN found
  ELSE ScanToEnd(m, listing, i + 1,
                 IF Matches(m, listing[i]) THEN i ELSE found)

LastMatch(m, listing) == ScanToEnd(m, listing, 1, 0)

FirstMatch(m, listing) == ScanExecutors(m, listing, 1)

(***************************************************************************)
(* Inputs of one invocation.                                               *)
(***************************************************************************)
MachineSpecs == {<<"a">>, <<"H", "1">>}

MachineNames == {<<"A", "1">>, <<"h", "1">>}

Listings == UNION {[1..n -> MachineNames] : n \in 0..MaxListing}

TemplateIds == {"None", "custom"}

RequirementLists == {<<>>, <<"", "numpy">>}

ArgSamples == {Atom("int", "1"), Cont("tuple", <<Atom("int", "1")>>), PyObject}

Stdouts == {"", "out"}

Stderrs == {"", "err"}

\* line 66
max_wait == 300

\* the result of sdk.exec; bound is FALSE while the variable is unbound
NoExec == [bound |-> FALSE, success |-> FALSE, stdout |-> "", stderr |-> ""]

ExecResult(ok, out, err) ==
  [bound |-> TRUE, success |-> ok, stdout |-> out, stderr |-> err]

NoPod == [state |-> "none", executor_id |-> 0, template_id |-> "None"]

NoRemote == [doc |-> NoDoc, writes |-> 0, exit |-> -1]

NoRetry ==
  [pc |-> "idle", max_attempts |-> 0, attempt |-> 0, log |-> <<>>,
   outcome |-> NoOutcome]

NoBackup ==
  [pc |-> "idle", requested |-> <<>>, existing_config |-> <<>>,
   before |-> <<>>, server |-> <<>>, log |-> <<>>, ok |-> "none"]

\* the components that take no part in a specification stay as they are
PairIdle ==
  /\ inv = <<>>
  /\ pods = <<>>
  /\ envs = {}
  /\ clock = 0

OthersIdle ==
  /\ PairIdle
  /\ retry = NoRetry
  /\ backup = NoBackup

\* no invocation of wrapper under way
WrapperIdle ==
  /\ pc = "done"
  /\ machine = <<"a">>
  /\ template_id = "None"
  /\ cleanup = TRUE
  /\ requirements = <<>>
  /\ executors = <<>>
  /\ matching_executor = 0
  /\ template = "unset"
  /\ fleet = NoPod
  /\ pod_info = "None"
  /\ arg = Absent
  /\ beh = ""
  /\ runner_file = "none"
  /\ venv_path = "unset"
  /\ install_result = NoExec
  /\ exec_result = NoExec
  /\ remote = NoRemote
  /\ result_file = "none"
  /\ download_result = "none"
  /\ result_data = PyNoneData
  /\ calls = <<>>
  /\ pending = NoOutcome
  /\ primary = NoOutcome
  /\ outcome = NoOutcome
  /\ td_raised = {}

Init ==
  /\ OthersIdle
  /\ pc = "select"
  /\ machine \in MachineSpecs
  /\ template_id \in TemplateIds
  /\ cleanup \in BOOLEAN
  /\ requirements \in RequirementLists
  /\ executors = <<>>
  /\ matching_executor = 0
  /\ template = "unset"
  /\ fleet = NoPod
  /\ pod_info = "None"
  /\ arg = Absent
  /\ beh = ""
  /\ runner_file = "none"
  /\ venv_path = "unset"
  /\ install_result = NoExec
  /\ exec_result = NoExec
  /\ remote = NoRemote
  /\ result_file = "none"
  /\ download_result = "none"
  /\ result_data = PyNoneData
  /\ calls = <<>>
  /\ pending = NoOutcome
  /\ primary = NoOutcome
  /\ outcome = NoOutcome
  /\ td_raised = {}

\* an exception leaves the try body: control goes to the finally at label to
Throws(e, to) ==
  /\ pending' = e
  /\ primary' = e
  /\ pc' = to

\* line 51
NoMatch(m) == m = 0

\* lines 44-52
Select ==
  /\ pc = "select"
  /\ calls' = Append(calls, "ls")
  /\ \/ /\ Throws(Raise("SdkError", <<"ls">>), "outer_finally_venv")
        /\ UNCHANGED <<executors, matching_executor>>
     \/ \E listing \in Listings :
          /\ executors' = listing
          /\ matching_executor' = FirstMatch(machine, listing)
          /\ IF NoMatch(matching_executor')
             THEN Throws(Raise("LiumError",
                    <<"No executor found matching machine type: ">> \o machine),
                    "outer_finally_venv")
             ELSE /\ pc' = "template"
                  /\ UNCHANGED <<pending, primary>>
  /\ UNCHANGED <<others, params, template, fleet, pod_info, arg, beh, runner_file,
                 venv_path, install_result, exec_result, remote, retrieval,
                 result_data, outcome, td_raised>>

\* line 57
DefaultTemplate ==
  /\ pc = "template"
  /\ calls' = Append(calls, "default_docker_template")
  /\ \/ /\ Throws(Raise("SdkError", <<"default_docker_template">>),
                  "outer_finally_venv")
        /\ UNCHANGED template
     \/ /\ template' \in {"None", "default"}
        /\ pc' = "up"
        /\ UNCHANGED <<pending, primary>>
  /\ UNCHANGED <<others, params, executors, matching_executor, fleet, pod_info, arg,
                 beh, runner_file, venv_path, install_result, exec_result,
                 remote, retrieval, result_data, outcome, td_raised>>

\* lines 59-63
Up ==
  /\ pc = "up"
  /\ calls' = Append(calls, "up")
  /\ \/ /\ Throws(Raise("SdkError", <<"up">>), "outer_finally_venv")
        /\ UNCHANGED fleet
     \/ /\ fleet' = [state |-> "Provisioning",
                     executor_id |-> matching_executor,
                     template_id |-> template]
        /\ pc' = "wait_ready"
        /\ UNCHANGED <<pending, primary>>
  /\ UNCHANGED <<others, params, executors, matching_executor, template, pod_info,
                 arg, beh, runner_file, venv_path, install_result,
                 exec_result, remote, retrieval, result_data, outcome,
                 td_raised>>

\* the test of line 68 left out
NotReadyNever(p) == FALSE

\* line 68
NotReady(p) == p = "None"

\* lines 66-69
WaitReady ==
  /\ pc = "wait_ready"
  /\ calls' = Append(calls, "wait_ready")
  /\ \/ \E type \in {"SdkError", "KeyboardInterrupt"} :
          /\ Throws(Raise(type, <<"wait_ready">>), "outer_finally_venv")
          /\ UNCHANGED <<fleet, pod_info>>
     \/ \* wait_ready returns the pod, or None when the timeout expires
        \E p \in {"None", "pod"} :
          /\ pod_info' = p
          /\ IF p = "None"
             THEN \E st \in {"Provisioning", "Failed"} :
                    fleet' = [fleet EXCEPT !.state = st]
             ELSE fleet' = [fleet EXCEPT !.state = "Ready"]
          /\ IF NotReady(p)
             THEN Throws(Raise("LiumError",
                           <<"Pod failed to start within ", "300s">>),
                         "outer_finally_venv")
             ELSE /\ pc' = "package"
                  /\ UNCHANGED <<pending, primary>>
  /\ UNCHANGED <<others, params, executors, matching_executor, template, arg, beh,
                 runner_file, venv_path, install_result, exec_result, remote,
                 retrieval, result_data, outcome, td_raised>>

\* lines 72-115: capture the source, build the script, write it to a
\* temporary file.  The call argument is read here (line 91).
Package ==
  /\ pc = "package"
  /\ \/ \* inspect.getsource or the search of the def line raises
        /\ Throws(Raise("OSError", <<"could not get source code">>),
                  "outer_finally_venv")
        /\ UNCHANGED <<arg, runner_file>>
     \/ \E a \in ArgSamples :
          /\ arg' = a
          /\ runner_file' = "exists"
          /\ pc' = "upload"
          /\ UNCHANGED <<pending, primary>>
  /\ UNCHANGED <<others, params, executors, matching_executor, template, fleet,
                 pod_info, beh, venv_path, install_result, exec_result,
                 remote, retrieval, result_data, calls, outcome, td_raised>>

\* line 119
\* the script uploaded once the environment exists
UploadAfterVenv ==
  /\ pc = "upload"
  /\ calls' = calls \o <<"exec_venv", "upload">>
  /\ \/ Throws(Raise("SdkError", <<"upload">>), "inner_finally")
     \/ /\ pc' = "install"
        /\ UNCHANGED <<pending, primary>>
  /\ UNCHANGED <<others, params, executors, matching_executor, template, fleet,
                 pod_info, arg, beh, runner_file, venv_path, install_result,
                 exec_result, remote, retrieval, result_data, outcome,
                 td_raised>>

Upload ==
  /\ pc = "upload"
  /\ calls' = Append(calls, "upload")
  /\ \/ Throws(Raise("SdkError", <<"upload">>), "inner_finally")
     \/ /\ pc' = "venv"
        /\ UNCHANGED <<pending, primary>>
  /\ UNCHANGED <<others, params, executors, matching_executor, template, fleet,
                 pod_info, arg, beh, runner_file, venv_path, install_result,
                 exec_result, remote, retrieval, result_data, outcome,
                 td_raised>>

\* lines 122-127
CreateVenv ==
  /\ pc = "venv"
  /\ venv_path' = "set"
  /\ calls' = Append(calls, "exec_venv")
  /\ \/ Throws(Raise("SdkError", <<"exec">>), "inner_finally")
     \/ Throws(Raise("LiumError",
                 <<"Failed to create virtual environment:\n", "venv stderr">>),
               "inner_finally")
     \/ /\ pc' = "install"
        /\ UNCHANGED <<pending, primary>>
  /\ UNCHANGED <<others, params, executors, matching_executor, template, fleet,
                 pod_info, arg, beh, runner_file, install_result, exec_result,
                 remote, retrieval, result_data, outcome, td_raised>>

\* line 130
Reqs(rs) == SelectSeq(rs, LAMBDA req : req # "")

\* ', '.join(reqs) of line 138, kept as the list of its parts
JoinReqs(reqs) == reqs

\* lines 135-139
InstallFailure(reqs, result) ==
  Raise("LiumError",
        <<"Failed installing requirements (">> \o JoinReqs(reqs)
          \o <<"):\n", result.stderr>>)

\* the test of line 135 left out
CommandNeverFailed(result) == FALSE

\* line 135
CommandFailed(result) == ~result.success

\* lines 130-139
Install ==
  /\ pc = "install"
  /\ LET reqs == Reqs(requirements) IN
     IF reqs = <<>>
     THEN /\ pc' = "run"
          /\ UNCHANGED <<calls, install_result, pending, primary>>
     ELSE /\ calls' = Append(calls, "exec_pip")
          /\ \/ /\ Throws(Raise("SdkError", <<"exec">>), "inner_finally")
                /\ UNCHANGED install_result
             \/ \E ok \in BOOLEAN, err \in Stderrs :
                  /\ install_result' = ExecResult(ok, "", err)
                  /\ IF CommandFailed(install_result')
                     THEN Throws(InstallFailure(reqs, install_result'),
                                 "inner_finally")
                     ELSE /\ pc' = "run"
                          /\ UNCHANGED <<pending, primary>>
  /\ UNCHANGED <<others, params, executors, matching_executor, template, fleet,
                 pod_info, arg, beh, runner_file, venv_path, exec_result,
                 remote, retrieval, result_data, outcome, td_raised>>

\* lines 142-145: the run command; the remote interpreter runs the script.
\* The status the session reports is that of the process: it is non-zero
\* when the script exits non-zero, and also when the process dies after the
\* script's last statement (killed is TRUE).
Run ==
  /\ pc = "run"
  /\ calls' = Append(calls, "exec_run")
  /\ \/ \E type \in {"SdkError", "KeyboardInterrupt"} :
          /\ Throws(Raise(type, <<"exec">>), "inner_finally")
          /\ UNCHANGED <<beh, exec_result, remote>>
     \/ \E b \in FuncBehaviours, out \in Stdouts, err \in Stderrs,
           killed \in BOOLEAN :
          LET r == runner_script(b, arg) IN
          /\ beh' = b
          /\ remote' = [doc |-> r.doc, writes |-> r.writes, exit |-> r.exit]
          /\ exec_result' = ExecResult(r.exit = 0 /\ ~killed, out, err)
          /\ pc' = "download"
          /\ UNCHANGED <<pending, primary>>
  /\ UNCHANGED <<others, params, executors, matching_executor, template, fleet,
                 pod_info, arg, runner_file, venv_path, install_result,
                 retrieval, result_data, outcome, td_raised>>

\* the ways the try of lines 150-155 ends: sdk.download raises ("failed"),
\* json.load raises on what was fetched ("unparsable"), the artifact is
\* loaded ("parsed")
DownloadResults == {"failed", "unparsable", "parsed"}

\* the local copy unlinked after the load only, not in a finally
LocalCopyKeptOnFailure(o) == IF o = "parsed" THEN "deleted" ELSE "exists"

\* lines 158-160: the finally of the retrieval unlinks the local copy (the
\* os.unlink of line 160 follows the os.path.exists test of line 159)
LocalCopyAfter(o) == "deleted"

\* lines 150-157
ParsedOrNone(o, doc) == IF o = "parsed" THEN LoadDoc(doc) ELSE PyNoneData

\* a retrieval that is attempted only after a run that reported success
DownloadOnlyOnSuccess ==
  /\ pc = "download"
  /\ IF exec_result.success
     THEN /\ calls' = Append(calls, "download")
          /\ \E o \in DownloadResults :
               /\ (o = "parsed") => remote.doc.kind # "none"
               /\ download_result' = o
               /\ result_data' = ParsedOrNone(o, remote.doc)
               /\ result_file' = LocalCopyAfter(o)
     ELSE /\ result_data' = PyNoneData
          /\ UNCHANGED <<calls, retrieval>>
  /\ pc' = "classify"
  /\ UNCHANGED <<others, params, executors, matching_executor, template, fleet,
                 pod_info, arg, beh, runner_file, venv_path, install_result,
                 exec_result, remote, pending, primary, outcome, td_raised>>

\* lines 148-160: download and parse the artifact; any failure leaves
\* result_data None
Download ==
  /\ pc = "download"
  /\ calls' = Append(calls, "download")
  /\ \E o \in DownloadResults :
       /\ (o = "parsed") => remote.doc.kind # "none"
       /\ download_result' = o
       /\ result_data' = ParsedOrNone(o, remote.doc)
       /\ result_file' = LocalCopyAfter(o)
  /\ pc' = "classify"
  /\ UNCHANGED <<others, params, executors, matching_executor, template, fleet,
                 pod_info, arg, beh, runner_file, venv_path, install_result,
                 exec_result, remote, pending, primary, outcome, td_raised>>

\* lines 162-174
Retrieve ==
  /\ pc = "classify"
  /\ pending' = Classify(result_data, exec_result)
  /\ primary' = pending'
  /\ pc' = "inner_finally"
  /\ UNCHANGED <<others, params, executors, matching_executor, template, fleet,
                 pod_info, arg, beh, runner_file, venv_path, install_result,
                 exec_result, remote, retrieval, result_data, calls,
                 outcome, td_raised>>

\* lines 176-178: the inner finally; an exception raised here replaces the
\* return value or exception in flight
InnerFinally ==
  /\ pc = "inner_finally"
  /\ calls' = Append(calls, "unlink")
  /\ \/ /\ runner_file' = "deleted"
        /\ UNCHANGED <<pending, td_raised>>
     \/ /\ pending' = Raise("OSError", <<"unlink">>)
        /\ td_raised' = td_raised \cup {"unlink"}
        /\ UNCHANGED runner_file
  /\ pc' = "outer_finally_venv"
  /\ UNCHANGED <<others, params, executors, matching_executor, template, fleet,
                 pod_info, arg, beh, venv_path, install_result, exec_result,
                 remote, retrieval, result_data, primary, outcome>>

\* line 182
VenvRemovalGuard == pod_info # "None" /\ venv_path # "unset"

\* the pod released before the environment is removed
OuterFinallyVenvAfterRelease ==
  /\ pc = "outer_finally_venv"
  /\ IF VenvRemovalGuard
     THEN /\ calls' = calls \o (IF cleanup THEN <<"down">> ELSE <<>>)
                            \o <<"exec_rm">>
          /\ \/ UNCHANGED td_raised
             \/ td_raised' = td_raised \cup {"exec_rm"}
     ELSE UNCHANGED <<calls, td_raised>>
  /\ pc' = "outer_finally_pod"
  /\ UNCHANGED <<others, params, executors, matching_executor, template, fleet,
                 pod_info, arg, beh, runner_file, venv_path, install_result,
                 exec_result, remote, retrieval, result_data, pending,
                 primary, outcome>>

\* lines 182-186
OuterFinallyVenv ==
  /\ pc = "outer_finally_venv"
  /\ IF VenvRemovalGuard
     THEN /\ calls' = Append(calls, "exec_rm")
          /\ \/ UNCHANGED td_raised
             \/ td_raised' = td_raised \cup {"exec_rm"}
     ELSE UNCHANGED <<calls, td_raised>>
  /\ pc' = "outer_finally_pod"
  /\ UNCHANGED <<others, params, executors, matching_executor, template, fleet,
                 pod_info, arg, beh, runner_file, venv_path, install_result,
                 exec_result, remote, retrieval, result_data, pending,
                 primary, outcome>>

\* release only when the pipeline returned a value
ReleaseGuardOnReturn ==
  cleanup /\ pod_info # "None" /\ pending.kind = "return"

\* release whatever the caller asked for
ReleaseGuardIgnoresCleanup == pod_info # "None"

\* release given up when the removal of the environment raised
ReleaseGuardUnlessRmFailed ==
  cleanup /\ pod_info # "None" /\ "exec_rm" \notin td_raised

\* release of whatever was allocated, ready or not
ReleaseGuardOnAllocated == cleanup /\ fleet.state # "none"

\* line 189
ReleaseGuard == cleanup /\ pod_info # "None"

\* a release whose error reaches the caller
AfterReleasePropagates(raised) ==
  IF raised THEN Raise("SdkError", <<"down">>) ELSE pending

\* lines 190-193: the error of sdk.down is passed over; the return or raise
\* that was pending completes
AfterRelease(raised) == pending

\* lines 189-193, then the pending return or raise completes
OuterFinallyPod ==
  /\ pc = "outer_finally_pod"
  /\ IF ReleaseGuard
     THEN /\ calls' = Append(calls, "down")
          /\ \/ /\ fleet' = [fleet EXCEPT !.state = "Released"]
                /\ UNCHANGED td_raised
             \/ /\ td_raised' = td_raised \cup {"down"}
                /\ UNCHANGED fleet
     ELSE UNCHANGED <<calls, fleet, td_raised>>
  /\ outcome' = AfterRelease("down" \in td_raised')
  /\ pc' = "done"
  /\ UNCHANGED <<others, params, executors, matching_executor, template, pod_info,
                 arg, beh, runner_file, venv_path, install_result,
                 exec_result, remote, retrieval, result_data, pending,
                 primary>>

Next ==
  \/ Select
  \/ DefaultTemplate
  \/ Up
  \/ WaitReady
  \/ Package
  \/ Upload
  \/ CreateVenv
  \/ Install
  \/ Run
  \/ Download
  \/ Retrieve
  \/ InnerFinally
  \/ OuterFinallyVenv
  \/ OuterFinallyPod

Spec == Init /\ [][Next]_vars

TypeOK ==
  /\ pc \in {"select", "template", "up", "wait_ready", "package", "upload",
             "venv", "install", "run", "download", "classify",
             "inner_finally", "outer_finally_venv", "outer_finally_pod",
             "done"}
  /\ pending.kind \in {"none", "return", "raise"}
  /\ outcome.kind \in {"none", "return", "raise"}

(***************************************************************************)
(* The same pipeline from the upload on, started in the state one          *)
(* invocation is in after packaging, with the call argument drawn from all *)
(* the literal values up to MaxDepth: the specification of the round trip  *)
(* of a value through the script, the artifact and the retrieval.          *)
(***************************************************************************)
InitRT ==
  /\ OthersIdle
  /\ pc = "upload"
  /\ machine = <<"a">>
  /\ template_id = "None"
  /\ cleanup = TRUE
  /\ requirements = <<>>
  /\ executors = <<(<<"A", "1">>)>>
  /\ matching_executor = 1
  /\ template = "default"
  /\ fleet = [state |-> "Ready", executor_id |-> 1, template_id |-> "default"]
  /\ pod_info = "pod"
  /\ arg \in PyValues(MaxDepth)
  /\ beh = ""
  /\ runner_file = "exists"
  /\ venv_path = "unset"
  /\ install_result = NoExec
  /\ exec_result = NoExec
  /\ remote = NoRemote
  /\ result_file = "none"
  /\ download_result = "none"
  /\ result_data = PyNoneData
  /\ calls = <<"ls", "default_docker_template", "up", "wait_ready">>
  /\ pending = NoOutcome
  /\ primary = NoOutcome
  /\ outcome = NoOutcome
  /\ td_raised = {}

NextRT ==
  \/ Upload
  \/ CreateVenv
  \/ Install
  \/ Run
  \/ Download
  \/ Retrieve
  \/ InnerFinally
  \/ OuterFinallyVenv
  \/ OuterFinallyPod

SpecRT == InitRT /\ [][NextRT]_vars

(***************************************************************************)
(* The classification of lines 162-174 over every kind of JSON content the *)
(* file at the artifact path can hold when it parses: null, arrays,        *)
(* strings, numbers, booleans, and objects with or without the keys        *)
(* success, result, error and traceback.  The invocation starts in the     *)
(* state it is in after the retrieval loaded the file.                     *)
(***************************************************************************)
NonObject(kind, falsy) ==
  [kind |-> kind, falsy |-> falsy, success |-> "absent", result |-> Absent,
   error |-> <<>>, traceback |-> <<>>]

Documents ==
  {NoDoc}
  \cup {NonObject(k, f) : k \in {"array", "string", "number", "bool"},
                         f \in BOOLEAN}
  \cup {NonObject("object", TRUE)}
  \cup {[kind |-> "object", falsy |-> FALSE, success |-> sc, result |-> r,
         error |-> e, traceback |-> tb] :
           sc \in {"true", "false", "absent"},
           r \in {Absent, Atom("number", "1")},
           e \in {<<>>, <<"boom">>},
           tb \in {<<>>, <<"">>, <<"Traceback">>}}

InitDoc ==
  /\ OthersIdle
  /\ pc = "classify"
  /\ machine = <<"a">>
  /\ template_id = "None"
  /\ cleanup \in BOOLEAN
  /\ requirements = <<>>
  /\ executors = <<(<<"A", "1">>)>>
  /\ matching_executor = 1
  /\ template = "default"
  /\ fleet = [state |-> "Ready", executor_id |-> 1, template_id |-> "default"]
  /\ pod_info = "pod"
  /\ arg = Atom("int", "1")
  /\ beh = ""
  /\ runner_file = "exists"
  /\ venv_path = "set"
  /\ install_result = NoExec
  /\ \E ok \in BOOLEAN, out \in Stdouts, err \in Stderrs, d \in Documents :
       /\ exec_result = ExecResult(ok, out, err)
       /\ remote = [doc |-> d, writes |-> 1, exit |-> IF ok THEN 0 ELSE 1]
       /\ result_data = LoadDoc(d)
  /\ result_file = "deleted"
  /\ download_result = "parsed"
  /\ calls = <<"ls", "default_docker_template", "up", "wait_ready", "upload",
               "exec_venv", "exec_run", "download">>
  /\ pending = NoOutcome
  /\ primary = NoOutcome
  /\ outcome = NoOutcome
  /\ td_raised = {}

NextDoc ==
  \/ Retrieve
  \/ InnerFinally
  \/ OuterFinallyVenv
  \/ OuterFinallyPod

SpecDoc == InitDoc /\ [][NextDoc]_vars

(***************************************************************************)
(* with_retry (src/volt/sdk/utils.py, lines 78-91): one call of the        *)
(* wrapper it returns.  The wrapped function is a collaborator: each call  *)
(* returns a value or raises an error of one of the classes below.  The    *)
(* log holds the calls of the function and the sleeps, in order.           *)
(***************************************************************************)
RetryableErrors ==
  {"LiumRateLimitError", "LiumServerError", "RequestException",
   "ConnectionError"}

OtherErrors == {"LiumAuthError", "ValueError", "KeyboardInterrupt"}

CallResults ==
  {Return(Atom("str", v)) : v \in {"v1", "v2"}}
  \cup {Raise(e, <<"call">>) : e \in RetryableErrors \cup OtherErrors}

\* an except clause that catches everything
RetryableAll(type) == TRUE

\* line 86: the classes named, and their subclasses
Retryable(type) == type \in RetryableErrors

\* a loop that never gives up on its own
IsLastAttemptNever(a, n) == FALSE

\* line 87
IsLastAttempt(a, n) == a = n - 1

InitRetry ==
  /\ WrapperIdle
  /\ PairIdle
  /\ backup = NoBackup
  /\ \E n \in 0..MaxAttempts :
       retry = [pc |-> "loop", max_attempts |-> n, attempt |-> 0,
                log |-> <<>>, outcome |-> NoOutcome]

\* lines 84-88: one pass of the loop body up to the sleep
RetryCall ==
  /\ retry.pc = "loop"
  /\ retry.attempt < retry.max_attempts
  /\ \E res \in CallResults :
       LET logged == Append(retry.log, [ev |-> "call",
                                        attempt |-> retry.attempt,
                                        res |-> res])
           left == [retry EXCEPT !.log = logged, !.outcome = res,
                                 !.pc = "done"] IN
       retry' =
         IF res.kind = "return" THEN left
         ELSE IF Retryable(res.type)
         THEN IF IsLastAttempt(retry.attempt, retry.max_attempts)
              THEN left
              ELSE [retry EXCEPT !.log = logged, !.pc = "sleep"]
         ELSE left
  /\ UNCHANGED <<wrapper_vars, inv, pods, envs, clock, backup>>

\* line 89, then the next value of range(max_attempts)
RetrySleep ==
  /\ retry.pc = "sleep"
  /\ retry' = [retry EXCEPT
                 !.log = Append(retry.log, [ev |-> "sleep",
                                            attempt |-> retry.attempt,
                                            res |-> NoOutcome]),
                 !.attempt = retry.attempt + 1,
                 !.pc = "loop"]
  /\ UNCHANGED <<wrapper_vars, inv, pods, envs, clock, backup>>

\* line 84 with range(max_attempts) used up: the wrapper returns None
RetryFallThrough ==
  /\ retry.pc = "loop"
  /\ retry.attempt >= retry.max_attempts
  /\ retry' = [retry EXCEPT !.outcome = Return(PyNone), !.pc = "done"]
  /\ UNCHANGED <<wrapper_vars, inv, pods, envs, clock, backup>>

NextRetry ==
  \/ RetryCall
  \/ RetrySleep
  \/ RetryFallThrough

SpecRetry == InitRetry /\ [][NextRetry]_vars

(***************************************************************************)
(* SetBackupAction.execute (src/volt/cli/bk/set/actions.py, lines 8-33).   *)
(* backup.server is the backup configuration the pod has on the platform   *)
(* (a sequence of length 0 or 1), backup.before what it was when execute   *)
(* was called, backup.ok the ok of the ActionResult returned.  Each call   *)
(* of the platform returns or raises.                                      *)
(***************************************************************************)
BackupConfigs ==
  [path : {"/a", "/b"}, frequency_hours : {1, 24}, retention_days : {7, 30}]

InitBackup ==
  /\ WrapperIdle
  /\ PairIdle
  /\ retry = NoRetry
  /\ \E req \in BackupConfigs,
        cur \in {<<>>} \cup {<<c>> : c \in BackupConfigs} :
       backup = [pc |-> "config", requested |-> <<req>>,
                 existing_config |-> <<>>, before |-> cur, server |-> cur,
                 log |-> <<>>, ok |-> "none"]

\* lines 32-33: any exception ends execute with ok=False
BackupFailed(call) ==
  [backup EXCEPT !.log = Append(backup.log, call), !.ok = "false",
                 !.pc = "done"]

\* lines 20-22
BackupLookup ==
  /\ backup.pc = "config"
  /\ \/ backup' = BackupFailed("backup_config")
     \/ backup' = [backup EXCEPT
                     !.log = Append(backup.log, "backup_config"),
                     !.existing_config = backup.server,
                     !.pc = IF backup.server # <<>> THEN "delete"
                            ELSE "create"]
  /\ UNCHANGED <<wrapper_vars, inv, pods, envs, clock, retry>>

\* line 23
BackupDelete ==
  /\ backup.pc = "delete"
  /\ \/ backup' = BackupFailed("backup_delete")
     \/ backup' = [backup EXCEPT
                     !.log = Append(backup.log, "backup_delete"),
                     !.server = <<>>,
                     !.pc = "create"]
  /\ UNCHANGED <<wrapper_vars, inv, pods, envs, clock, retry>>

\* lines 25-31
BackupCreate ==
  /\ backup.pc = "create"
  /\ \/ backup' = BackupFailed("backup_create")
     \/ backup' = [backup EXCEPT
                     !.log = Append(backup.log, "backup_create"),
                     !.server = backup.requested,
                     !.ok = "true",
                     !.pc = "done"]
  /\ UNCHANGED <<wrapper_vars, inv, pods, envs, clock, retry>>

NextBackup ==
  \/ BackupLookup
  \/ BackupDelete
  \/ BackupCreate

SpecBackup == InitBackup /\ [][NextBackup]_vars

(***************************************************************************)
(* Two invocations of wrapper running side by side against one platform,   *)
(* reduced to the steps that touch what invocations could share: the pod   *)
(* (lines 59-69, 189-193) and the environment directory on it (lines       *)
(* 122-127, 142-145, 180-186).  pods is the list of the pods the platform  *)
(* has created, a pod's id being its index; sdk.up creates a pod, as the   *)
(* allocation of the specification does.  envs is the set of environment   *)
(* directories present, each with the pod it is on, its path and the       *)
(* invocation that created it.  clock is int(time.time()); the draw of     *)
(* random.randint(1000, 9999) is taken from the first MaxDraws values.     *)
(***************************************************************************)
Invocations == {1, 2}

rand_low == 1000

Draws == rand_low..(rand_low + MaxDraws - 1)

InitPair ==
  /\ WrapperIdle
  /\ retry = NoRetry
  /\ backup = NoBackup
  /\ pods = <<>>
  /\ envs = {}
  /\ clock = 0
  /\ \E cl \in [Invocations -> BOOLEAN] :
       inv = [i \in Invocations |->
                [pc |-> "up", cleanup |-> cl[i], pod_dict |-> 0,
                 pod_info |-> 0, venv_path |-> <<>>, ups |-> 0, downs |-> 0,
                 released |-> {}, ran_in |-> {}, removed |-> {}]]

\* the environment directories at the path of invocation i on its pod
EnvsAt(i) ==
  {e \in envs : e.pod = inv[i].pod_info /\ e.path = inv[i].venv_path}

\* a pod taken from those that are Ready when there is one
PairUpFromPool(i) ==
  /\ inv[i].pc = "up"
  /\ LET ready == {p \in 1..Len(pods) : pods[p].state = "Ready"} IN
     IF ready # {}
     THEN /\ \E p \in ready :
               inv' = [inv EXCEPT ![i].ups = @ + 1, ![i].pod_dict = p,
                                  ![i].pc = "wait_ready"]
          /\ UNCHANGED pods
     ELSE /\ pods' = Append(pods, [state |-> "Provisioning", by |-> i])
          /\ inv' = [inv EXCEPT ![i].ups = @ + 1,
                                ![i].pod_dict = Len(pods) + 1,
                                ![i].pc = "wait_ready"]
  /\ UNCHANGED <<wrapper_vars, envs, clock, retry, backup>>

\* lines 59-63
PairUp(i) ==
  /\ inv[i].pc = "up"
  /\ \/ /\ inv' = [inv EXCEPT ![i].ups = @ + 1, ![i].pc = "finally_venv"]
        /\ UNCHANGED pods
     \/ /\ pods' = Append(pods, [state |-> "Provisioning", by |-> i])
        /\ inv' = [inv EXCEPT ![i].ups = @ + 1,
                              ![i].pod_dict = Len(pods) + 1,
                              ![i].pc = "wait_ready"]
  /\ UNCHANGED <<wrapper_vars, envs, clock, retry, backup>>

\* lines 66-69
PairWaitReady(i) ==
  /\ inv[i].pc = "wait_ready"
  /\ \/ /\ inv' = [inv EXCEPT ![i].pc = "finally_venv"]
        /\ \E st \in {"Provisioning", "Failed"} :
             pods' = [pods EXCEPT ![inv[i].pod_dict].state =
                        IF @ = "Provisioning" THEN st ELSE @]
     \/ /\ inv' = [inv EXCEPT ![i].pod_info = inv[i].pod_dict,
                              ![i].pc = "venv"]
        /\ pods' = [pods EXCEPT ![inv[i].pod_dict].state = "Ready"]
  /\ UNCHANGED <<wrapper_vars, envs, clock, retry, backup>>

\* lines 122-127
PairCreateVenv(i) ==
  /\ inv[i].pc = "venv"
  /\ \E r \in Draws :
       LET path == <<clock, r>> IN
       \/ /\ inv' = [inv EXCEPT ![i].venv_path = path,
                                ![i].pc = "finally_venv"]
          /\ UNCHANGED envs
       \/ /\ inv' = [inv EXCEPT ![i].venv_path = path, ![i].pc = "run"]
          /\ envs' = envs \cup {[pod |-> inv[i].pod_info, path |-> path,
                                  by |-> i]}
  /\ UNCHANGED <<wrapper_vars, pods, clock, retry, backup>>

\* lines 129-145: pip and the script run with the interpreter found at
\* venv_path on the pod
PairRun(i) ==
  /\ inv[i].pc = "run"
  /\ inv' = [inv EXCEPT
               ![i].ran_in = @ \cup {e.by : e \in EnvsAt(i)},
               ![i].pc = "finally_venv"]
  /\ UNCHANGED <<wrapper_vars, pods, envs, clock, retry, backup>>

\* lines 180-186
PairRemoveVenv(i) ==
  /\ inv[i].pc = "finally_venv"
  /\ IF inv[i].pod_info # 0 /\ inv[i].venv_path # <<>>
     THEN \/ /\ inv' = [inv EXCEPT ![i].pc = "finally_pod"]
             /\ UNCHANGED envs
          \/ /\ inv' = [inv EXCEPT
                          ![i].removed = @ \cup {e.by : e \in EnvsAt(i)},
                          ![i].pc = "finally_pod"]
             /\ envs' = envs \ EnvsAt(i)
     ELSE /\ inv' = [inv EXCEPT ![i].pc = "finally_pod"]
          /\ UNCHANGED envs
  /\ UNCHANGED <<wrapper_vars, pods, clock, retry, backup>>

\* release of whichever pod is Ready
ReleaseTargetAnyReady(i) ==
  CHOOSE p \in 1..Len(pods) : pods[p].state = "Ready"

\* line 191: the argument of sdk.down
ReleaseTarget(i) == inv[i].pod_info

\* lines 189-193
PairDown(i) ==
  /\ inv[i].pc = "finally_pod"
  /\ IF inv[i].cleanup /\ inv[i].pod_info # 0
     THEN LET p == ReleaseTarget(i) IN
          /\ inv' = [inv EXCEPT ![i].downs = @ + 1,
                                ![i].released = @ \cup {p},
                                ![i].pc = "done"]
          /\ \/ pods' = [pods EXCEPT ![p].state = "Released"]
             \/ UNCHANGED pods
     ELSE /\ inv' = [inv EXCEPT ![i].pc = "done"]
          /\ UNCHANGED pods
  /\ UNCHANGED <<wrapper_vars, envs, clock, retry, backup>>

\* a second passes
Tick ==
  /\ clock < MaxClock
  /\ clock' = clock + 1
  /\ UNCHANGED <<wrapper_vars, inv, pods, envs, retry, backup>>

NextPair ==
  \/ \E i \in Invocations : PairUp(i)
  \/ \E i \in Invocations : PairWaitReady(i)
  \/ \E i \in Invocations : PairCreateVenv(i)
  \/ \E i \in Invocations : PairRun(i)
  \/ \E i \in Invocations : PairRemoveVenv(i)
  \/ \E i \in Invocations : PairDown(i)
  \/ Tick

SpecPair == InitPair /\ [][NextPair]_vars

(***************************************************************************)
(* Properties.                                                             *)
(***************************************************************************)
InCalls(c) == \E i \in 1..Len(calls) : calls[i] = c

Returned == outcome.kind # "none"

\* the classification of lines 162-174 has run
Classified == InCalls("download") /\ pc # "classify"

LaterStageCalls == {"upload", "exec_venv", "exec_pip", "exec_run", "download"}

TimeoutError == Raise("LiumError", <<"Pod failed to start within ", "300s">>)

\* C1: once the pod was Ready, whatever the later stages did, when the
\* wrapper hands its outcome to the caller the deletion of the local script
\* has been issued (and the file is gone unless that deletion itself
\* raised), the removal of the environment has been issued if its creation
\* was, and with cleanup requested the release has been issued.
C1_TeardownAfterReady ==
  (Returned /\ pod_info = "pod") =>
    /\ (runner_file # "none" => InCalls("unlink"))
    /\ (runner_file # "none" /\ "unlink" \notin td_raised
          => runner_file = "deleted")
    /\ (InCalls("exec_venv") => InCalls("exec_rm"))
    /\ (cleanup => InCalls("down"))

\* C1 witness: an invocation whose install stage raised, ended with the
\* script deleted, the environment removal issued and the pod released.
C1_Witness ==
  /\ Returned /\ pod_info = "pod" /\ cleanup
  /\ primary.kind = "raise" /\ InCalls("exec_pip")
  /\ runner_file = "deleted" /\ InCalls("exec_rm") /\ InCalls("down")
  /\ fleet.state = "Released"

\* C2: an invocation that allocated a pod, did not observe readiness within
\* the timeout and had cleanup requested has issued the release when the
\* timeout error reaches the caller.
C2_TimeoutReleasesPod ==
  (Returned /\ cleanup /\ fleet.state # "none" /\ primary = TimeoutError)
    => InCalls("down")

\* C3: whatever the three teardown steps do, the caller receives exactly
\* what the stages before teardown produced.
C3_TeardownNeverMasks == Returned => outcome = primary

\* values that json writes and reads back unchanged: None, booleans,
\* numbers, strings, lists and dicts with string keys, nested
RECURSIVE JsonStable(_)
JsonStable(v) ==
  CASE v.t \in {"NoneType", "bool", "int", "str"} -> TRUE
    [] v.t = "list" -> \A i \in 1..Len(v.items) : JsonStable(v.items[i])
    [] v.t = "dict" ->
         \A i \in 1..Len(v.items) :
           IF i % 2 = 1 THEN v.items[i].t = "str" ELSE JsonStable(v.items[i])
    [] OTHER -> FALSE

\* C4 as stated: for every function that returns a value and every
\* returned value, tuples and dicts with other than string keys included,
\* the value returned to the caller by a run whose artifact was retrieved
\* equals the value of the direct call.
C4_AnyValueRoundTrips ==
  (Returned /\ DirectCall(beh, arg) # Absent /\ result_data.kind # "none"
     /\ td_raised = {})
    => outcome = Return(DirectCall(beh, arg))

\* C4 amended: for every function that uses nothing but its parameters and
\* every returned value made of None, booleans, numbers, strings, lists and
\* dicts with string keys, the retrieval yields the value of the direct
\* call, and whenever the wrapper returns a value to the caller it is that
\* value.
C4_JsonValueRoundTrips ==
  (beh = "return" /\ JsonStable(arg)) =>
    /\ Classified /\ result_data.kind # "none"
         => primary = Return(DirectCall(beh, arg))
    /\ Returned /\ outcome.kind = "return"
         => outcome.val = DirectCall(beh, arg)
    /\ Returned /\ result_data.kind # "none" /\ "unlink" \notin td_raised
         => outcome = Return(DirectCall(beh, arg))

\* C4 witness: a dict with a string key holding a list came back equal.
C4_Witness ==
  /\ Returned /\ beh = "return"
  /\ arg.t = "dict" /\ Len(arg.items) = 2 /\ arg.items[2].t = "list"
  /\ JsonStable(arg)
  /\ outcome = Return(arg)

\* C5: once an artifact with success true was retrieved, the classification
\* yields the return of its result whatever the status and the streams of
\* the run, and that is what the caller receives.
C5_SuccessArtifactReturns ==
  (Classified /\ result_data.kind = "object" /\ result_data.success = "true")
    =>
    /\ primary = Return(result_data.result)
    /\ pending.kind = "return" => pending = primary
    /\ Returned /\ "unlink" \notin td_raised
         => outcome = Return(result_data.result)

\* C5 witness: the result was returned although the run reported failure
\* and wrote to stderr.
C5_Witness ==
  /\ Returned /\ result_data.success = "true"
  /\ ~exec_result.success /\ exec_result.stderr # ""
  /\ outcome = Return(result_data.result)

\* C6: once an artifact with success false was retrieved, the error raised
\* is the remote-execution error whose message is the artifact's error
\* followed by its traceback when it has one; no part of it is the run's
\* stderr or stdout.
C6_FailureArtifactMessage ==
  (Classified /\ result_data.kind = "object" /\ result_data.success = "false")
    =>
    LET err == IF result_data.error = <<>> THEN "Unknown remote error"
               ELSE result_data.error[1]
        tb == IF result_data.traceback = <<>> \/ result_data.traceback = <<"">>
              THEN <<>>
              ELSE <<"\n\nTraceback:\n", result_data.traceback[1]>>
    IN
    /\ primary = Raise("LiumError",
                       <<"Remote execution failed:\n", err>> \o tb)
    /\ \A i \in 1..Len(primary.msg) : primary.msg[i] \notin {"err", "out"}
    /\ Returned /\ "unlink" \notin td_raised => outcome = primary

\* C6 witness: the artifact's error and traceback were raised while both
\* streams of the run were non-empty.
C6_Witness ==
  /\ Returned /\ result_data.success = "false"
  /\ exec_result.stderr = "err" /\ exec_result.stdout = "out"
  /\ outcome.kind = "raise" /\ Len(outcome.msg) = 4
  /\ outcome.msg[2] = "boom" /\ outcome.msg[4] = "Traceback"

\* C7: when no artifact was obtained, the error raised is the
\* remote-execution error whose message is the run's stderr when it is not
\* empty, else its stdout when that is not empty, else the generic text.
C7_NoArtifactStreamPriority ==
  (Classified /\ result_data.kind = "none") =>
    LET text == IF exec_result.stderr # "" THEN exec_result.stderr
                ELSE IF exec_result.stdout # "" THEN exec_result.stdout
                ELSE "Unknown remote error"
    IN
    /\ primary = Raise("LiumError", <<"Remote execution failed:\n", text>>)
    /\ Returned /\ "unlink" \notin td_raised => outcome = primary

\* C7 witness: with both streams non-empty and no artifact, stderr was
\* raised.
C7_Witness ==
  /\ Returned /\ InCalls("download") /\ result_data.kind = "none"
  /\ exec_result.stderr = "err" /\ exec_result.stdout = "out"
  /\ outcome = Raise("LiumError", <<"Remote execution failed:\n", "err">>)

\* C8: once wait_ready has ended without the pod being ready, an error is
\* in flight, no later stage is entered and no upload, exec or download is
\* ever issued; the caller receives an error.
C8_TimeoutStopsPipeline ==
  (InCalls("wait_ready") /\ pod_info = "None") =>
    /\ pc \in {"outer_finally_venv", "outer_finally_pod", "done"}
    /\ primary.kind = "raise"
    /\ \A c \in LaterStageCalls \cup {"exec_rm", "unlink"} : ~InCalls(c)
    /\ runner_file = "none"
    /\ Returned => outcome = primary

\* C8 witness: the timeout error reached the caller after ls, the template
\* lookup, up and wait_ready only.
C8_Witness ==
  /\ Returned /\ outcome = TimeoutError
  /\ calls = <<"ls", "default_docker_template", "up", "wait_ready">>

\* C9: once the install command has reported failure, the error in flight
\* is the install error ending with the stderr the command captured, and
\* neither the run of the script nor the download is ever issued.
C9_InstallFailureAborts ==
  (install_result.bound /\ ~install_result.success) =>
    /\ primary.kind = "raise" /\ primary.type = "LiumError"
    /\ primary.msg[1] = "Failed installing requirements ("
    /\ primary.msg[Len(primary.msg)] = install_result.stderr
    /\ ~InCalls("exec_run") /\ ~InCalls("download")
    /\ Returned /\ "unlink" \notin td_raised => outcome = primary

\* C9 witness: an install that failed with stderr "err" reached the caller
\* as that error.
C9_Witness ==
  /\ Returned /\ install_result.bound /\ ~install_result.success
  /\ install_result.stderr = "err"
  /\ outcome = primary /\ outcome.msg[Len(outcome.msg)] = "err"
  /\ InCalls("exec_pip")

\* C10: when the listing was obtained and none of its entries matches the
\* machine specification, an error is raised and ls stays the only call
\* ever made: no allocate, exec, upload, download or release.
C10_NoMatchNoSideEffect ==
  (InCalls("ls") /\ \A i \in 1..Len(executors) : ~Matches(machine, executors[i]))
    =>
    /\ calls = <<"ls">>
    /\ fleet = NoPod /\ runner_file = "none"
    /\ primary.kind = "raise"
    /\ Returned => outcome = primary

\* C10 witness: a listing of two executors, neither matching, ended in the
\* no-executor error.
C10_Witness ==
  /\ Returned /\ Len(executors) = 2
  /\ \A i \in 1..Len(executors) : ~Matches(machine, executors[i])
  /\ outcome.type = "LiumError"
  /\ outcome.msg[1] = "No executor found matching machine type: "
  /\ calls = <<"ls">>

\* C11: once the listing was obtained, the executor selected is the first
\* entry, in listing order, whose name contains the machine specification
\* as a substring when both are lowered, none when no entry does; the pod
\* is allocated on that executor.
C11_FirstMatchSelected ==
  (InCalls("ls") /\ primary.type # "SdkError" /\ pc # "select") =>
    /\ matching_executor \in 0..Len(executors)
    /\ matching_executor # 0 =>
         /\ IsSubstring(Lower(machine), Lower(executors[matching_executor]))
         /\ \A j \in 1..(matching_executor - 1) :
              ~IsSubstring(Lower(machine), Lower(executors[j]))
    /\ matching_executor = 0 =>
         \A j \in 1..Len(executors) :
           ~IsSubstring(Lower(machine), Lower(executors[j]))
    /\ fleet.state # "none" => fleet.executor_id = matching_executor

\* C11 witness: of two entries that both match "a" case-insensitively the
\* first was selected and allocated.
C11_Witness ==
  /\ machine = <<"a">> /\ executors = << <<"A", "1">>, <<"A", "1">> >>
  /\ matching_executor = 1
  /\ fleet.state # "none" /\ fleet.executor_id = 1

\* C12: with cleanup not requested the release is never issued, while at the
\* end the deletion of the local script has been issued if the script was
\* written, and the removal of the environment if its creation was issued.
C12_NoCleanupNoRelease ==
  ~cleanup =>
    /\ ~InCalls("down")
    /\ fleet.state # "Released"
    /\ Returned =>
         /\ (runner_file # "none" => InCalls("unlink"))
         /\ (InCalls("exec_venv") => InCalls("exec_rm"))

\* C12 witness: an invocation without cleanup ended with the script deleted,
\* the environment removal issued and the pod still Ready.
C12_Witness ==
  /\ Returned /\ ~cleanup
  /\ runner_file = "deleted" /\ InCalls("exec_rm")
  /\ fleet.state = "Ready" /\ ~InCalls("down")

\* C13: the pod is allocated with the template_id passed to machine(...)
\* when one was passed, and with the executor's default template otherwise.
C13_TemplateIdUsed ==
  fleet.state # "none" =>
    fleet.template_id =
      (IF template_id # "None" THEN template_id ELSE template)

\* C14: when an interruption raised in wait_ready or in the run of the
\* script reaches the caller and cleanup was requested, the release of the
\* allocated pod has been issued.
C14_InterruptReleasesPod ==
  (Returned /\ cleanup /\ primary.type = "KeyboardInterrupt"
     /\ fleet.state # "none")
    => InCalls("down")

\* C15: a release that raises (the pod is already released, or any other
\* failure) raises nothing to the caller: the caller receives what was
\* pending before the release, as when the release succeeds.
C15_ReleaseFailureSilent ==
  (Returned /\ InCalls("down")) =>
    /\ outcome = pending
    /\ "unlink" \notin td_raised => outcome = primary
    /\ ~(outcome.kind = "raise" /\ outcome.msg = <<"down">>)

\* C15 witness: the release raised and the caller received the returned
\* value.
C15_Witness ==
  /\ Returned /\ "down" \in td_raised
  /\ outcome.kind = "return" /\ outcome = primary

TeardownCalls == {"unlink", "exec_rm", "down"}

Count(c) == Cardinality({i \in 1..Len(calls) : calls[i] = c})

IsPrefix(p, q) == Len(p) <= Len(q) /\ SubSeq(q, 1, Len(p)) = p

\* C16: the teardown calls are issued in the order deletion of the local
\* script, removal of the environment, release of the pod: nothing is issued
\* after the release, and the deletion never follows the removal.
C16_TeardownOrder ==
  \A i, j \in 1..Len(calls) :
    i < j =>
      /\ calls[i] = "down" => calls[j] \notin TeardownCalls
      /\ calls[i] = "exec_rm" => calls[j] # "unlink"
      /\ calls[i] \in TeardownCalls => calls[j] \in TeardownCalls

\* C16 witness: the three teardown steps were issued, one after the other,
\* at the end of an invocation.
C16_Witness ==
  /\ Returned /\ Len(calls) >= 3
  /\ SubSeq(calls, Len(calls) - 2, Len(calls)) = <<"unlink", "exec_rm", "down">>

\* C17 as stated: the script is uploaded only after the environment has
\* been created.
C17_UploadAfterEnvironment ==
  \A i \in 1..Len(calls) :
    calls[i] = "upload" => \E j \in 1..(i - 1) : calls[j] = "exec_venv"

StageCalls == SelectSeq(calls, LAMBDA c : c \notin TeardownCalls)

StageOrder(withInstall) ==
  <<"ls", "default_docker_template", "up", "wait_ready", "upload",
    "exec_venv">>
  \o (IF withInstall THEN <<"exec_pip">> ELSE <<>>)
  \o <<"exec_run", "download">>

\* C17: the calls of the stages are issued in the order selection (ls),
\* provisioning (default template, up, wait_ready), packaging, upload of the
\* script, creation of the environment, installation of the requirements
\* when there are any, run, retrieval; none is skipped or repeated and the
\* script is uploaded before the environment is created.
C17_StageOrder ==
  /\ IsPrefix(StageCalls, StageOrder(InCalls("exec_pip")))
  /\ InCalls("upload") => runner_file # "none"
  /\ InCalls("exec_run") =>
       (InCalls("exec_pip") <=> Reqs(requirements) # <<>>)
  /\ runner_file # "none" => InCalls("wait_ready") /\ pod_info # "None"
  /\ \A i, j \in 1..Len(calls) :
       (calls[i] = "upload" /\ calls[j] = "exec_venv") => i < j

\* C17 witness: an invocation went through every stage, the installation
\* included, up to the retrieval.
C17_Witness ==
  /\ Returned
  /\ StageCalls = StageOrder(TRUE)
  /\ runner_file = "deleted"

\* C18: when the removal of the environment raised, nothing of it reaches
\* the caller, and with cleanup requested the release is issued after it.
C18_RemovalFailureSwallowed ==
  (Returned /\ "exec_rm" \in td_raised) =>
    /\ cleanup =>
         \E i, j \in 1..Len(calls) :
           i < j /\ calls[i] = "exec_rm" /\ calls[j] = "down"
    /\ outcome = pending
    /\ "unlink" \notin td_raised => outcome = primary

\* C18 witness: the removal raised, the pod was released afterwards and the
\* caller received the value returned.
C18_Witness ==
  /\ Returned /\ "exec_rm" \in td_raised /\ cleanup
  /\ InCalls("down") /\ fleet.state = "Released"
  /\ outcome.kind = "return"

\* C19: once the run command has returned, with success or not, the download
\* of the artifact is issued exactly once before the classification; a
\* download that failed or a file that does not parse leaves no result data,
\* and the classification then raises the remote failure built from the
\* streams of the run, never an error of the download.
C19_DownloadAlwaysOnce ==
  exec_result.bound =>
    /\ Count("download") = (IF pc = "download" THEN 0 ELSE 1)
    /\ (pc # "download" /\ download_result \in {"failed", "unparsable"}) =>
         /\ result_data = PyNoneData
         /\ pc # "classify" =>
              primary = RemoteFailed(StreamMessage(exec_result))

\* C19 witness: after a run that failed the download was issued once, it
\* failed, and the caller received the remote failure.
C19_Witness ==
  /\ Returned /\ exec_result.bound /\ ~exec_result.success
  /\ Count("download") = 1 /\ download_result = "failed"
  /\ outcome = RemoteFailed(StreamMessage(exec_result))

\* C20: whatever the download and the load did, the local copy of the
\* artifact is gone when the classification starts, and no state has a local
\* copy left once the retrieval is over.
C20_LocalCopyRemoved ==
  /\ InCalls("download") =>
       /\ download_result \in DownloadResults
       /\ result_file = "deleted"
  /\ Returned => result_file # "exists"

\* C20 witness: the file downloaded did not parse and its local copy is
\* gone when the classification starts.
C20_Witness ==
  /\ pc = "classify" /\ download_result = "unparsable"
  /\ result_file = "deleted"

\* the run of the script ended with an exception of class Exception raised
\* by the def statement, by the call or by json.dump of the result
ScriptRaised ==
  /\ exec_result.bound
  /\ ReprText(arg).items # <<>>
  /\ \/ beh \in {"raise", "return_global", "def_raise"}
     \/ beh = "return" /\ JsonDump(arg) = JsonTypeError

\* C24: a run of the script ends with status 0 exactly when it has left the
\* success artifact.
C24_ExitZeroIffSuccessArtifact ==
  exec_result.bound =>
    (remote.exit = 0 <=> (remote.doc.kind = "object"
                            /\ remote.doc.success = "true"))

\* C25: whenever an exception was raised while the script defined the
\* function, called it or wrote the success artifact, the failure artifact
\* with its message and traceback is at the artifact path and the status of
\* the run is not 0.
C25_ExceptionLeavesFailureArtifact ==
  ScriptRaised =>
    /\ remote.doc.kind = "object" /\ remote.doc.success = "false"
    /\ remote.doc.error # <<>> /\ remote.doc.traceback # <<>>
    /\ remote.exit # 0

\* C26: in one execution attempt the script opens the artifact for writing at
\* most once, and no call of the harness writes it: upload is issued once,
\* for the script path.
C26_ArtifactWrittenOnce ==
  /\ remote.writes <= 1
  /\ Count("upload") <= 1

\* C27: whatever JSON content the retrieval loaded, the classification
\* returns a result or raises the remote-execution error (LiumError): no
\* exception of another type comes out of it.
C27_ClassificationTotal ==
  (pc # "classify" /\ download_result = "parsed") =>
    \/ primary.kind = "return"
    \/ primary.kind = "raise" /\ primary.type = "LiumError"

RetryCalls == SelectSeq(retry.log, LAMBDA e : e.ev = "call")

RetrySleeps == SelectSeq(retry.log, LAMBDA e : e.ev = "sleep")

RetryDone == retry.pc = "done"

\* C28: in one call of the wrapper of with_retry(max_attempts = n), n >= 1,
\* the function is called at most n times; a call that returns is the last
\* event and its value is what the wrapper returns; when n calls raised
\* retryable errors the wrapper raises the error of the n-th; calls and
\* sleeps alternate, so that there is one sleep between two consecutive
\* calls and none after the last call.
C28_RetryBounded ==
  retry.max_attempts >= 1 =>
    LET log == retry.log
        n == retry.max_attempts IN
    /\ Len(RetryCalls) <= n
    /\ \A k \in 1..Len(log) :
         /\ (k % 2 = 1) <=> (log[k].ev = "call")
         /\ (log[k].ev = "call" /\ log[k].res.kind = "return") =>
              k = Len(log) /\ RetryDone /\ retry.outcome = log[k].res
    /\ (RetryDone /\ retry.outcome.kind = "return") =>
         /\ log # <<>>
         /\ log[Len(log)].res = retry.outcome
    /\ (RetryDone /\ Len(RetryCalls) = n
          /\ \A k \in 1..n : /\ RetryCalls[k].res.kind = "raise"
                             /\ RetryCalls[k].res.type \in RetryableErrors) =>
         /\ retry.outcome = RetryCalls[n].res
         /\ Len(RetrySleeps) = n - 1
         /\ log[Len(log)].ev = "call"
    /\ RetryDone => log # <<>> /\ log[Len(log)].ev = "call"

\* C28 witness: with three attempts, three calls raised retryable errors of
\* different classes, two sleeps were taken and the error of the third call
\* is raised.
C28_Witness ==
  /\ RetryDone /\ retry.max_attempts = 3
  /\ Len(RetryCalls) = 3 /\ Len(RetrySleeps) = 2
  /\ RetryCalls[1].res.type = "LiumRateLimitError"
  /\ RetryCalls[3].res.type = "LiumServerError"
  /\ retry.outcome = Raise("LiumServerError", <<"call">>)

\* C29: a call of the function that raises an error that is no rate-limit
\* error, server error or request exception is the last event of the call
\* of the wrapper, which raises that error: no call and no sleep follows.
C29_OtherErrorsPropagate ==
  \A k \in 1..Len(retry.log) :
    LET e == retry.log[k] IN
    (e.ev = "call" /\ e.res.kind = "raise" /\ e.res.type \in OtherErrors) =>
      /\ k = Len(retry.log)
      /\ RetryDone
      /\ retry.outcome = e.res

\* C29 witness: with three attempts allowed, the first call raised
\* ValueError and the wrapper raised it after that single call.
C29_Witness ==
  /\ RetryDone /\ retry.max_attempts = 3
  /\ Len(retry.log) = 1
  /\ retry.outcome = Raise("ValueError", <<"call">>)

\* C30: whenever execute returns ok=False the backup configuration the pod
\* had before the call is still in place.
C30_BackupAllOrNothing ==
  backup.ok = "false" => backup.server = backup.before

\* C21: an invocation calls the allocation at most once and the release at
\* most once; the pod it releases is the one its own allocation returned,
\* created for it; no two invocations hold the same pod.
C21_OwnHandleOnly ==
  \A i \in Invocations :
    /\ inv[i].ups <= 1 /\ inv[i].downs <= 1
    /\ inv[i].pod_info \in {0, inv[i].pod_dict}
    /\ inv[i].pod_dict # 0 => pods[inv[i].pod_dict].by = i
    /\ \A p \in inv[i].released :
         p # 0 /\ p = inv[i].pod_dict /\ pods[p].by = i
    /\ \A j \in Invocations \ {i} :
         inv[i].pod_dict # 0 => inv[i].pod_dict # inv[j].pod_dict

\* C21 witness: both invocations ended, each having released the pod of its
\* own allocation.
C21_Witness ==
  /\ \A i \in Invocations :
       /\ inv[i].pc = "done" /\ inv[i].ups = 1 /\ inv[i].downs = 1
       /\ inv[i].released = {inv[i].pod_dict}
       /\ pods[inv[i].pod_dict].state = "Released"
  /\ inv[1].pod_dict # inv[2].pod_dict

HandleMoves ==
  {<<"none", "Provisioning">>, <<"Provisioning", "Ready">>,
   <<"Provisioning", "Failed">>, <<"Ready", "Released">>}

\* C22: the state of the invocation's pod changes only from Provisioning to
\* Ready, from Ready to Released, or from Provisioning to Failed (and from
\* not allocated to Provisioning): no step leaves Failed or Released and no
\* step goes backward.
C22_HandleStateMonotone ==
  [][fleet'.state # fleet.state => <<fleet.state, fleet'.state>> \in HandleMoves]_vars

\* C22 witness: the pod of an invocation that ended went through
\* Provisioning and Ready and is Released.
C22_Witness ==
  /\ Returned /\ fleet.state = "Released"
  /\ InCalls("up") /\ InCalls("wait_ready") /\ InCalls("down")

====
